---- MODULE Spec2Model ----
(***************************************************************************)
(* Model of the investment-decision calculation engine of stock-backend:   *)
(* pkg/services CalculateMetrics, CalculatePortfolioMetrics, the zone      *)
(* queries CalculateBuyZoneResult and CalculateSellZoneResult with their   *)
(* threshold solver, and the scheduler's updateStock that re-runs          *)
(* CalculateMetrics on a persisted record.                                 *)
(*                                                                         *)
(* float64 values are modelled as exact rationals <<n, d>> in lowest terms *)
(* with d > 0.  The non-finite results of IEEE division by zero (+Inf,     *)
(* -Inf, NaN) are modelled by the single value NaN == <<0, 0>>: it is      *)
(* absorbing for arithmetic and every comparison with it is FALSE.         *)
(***************************************************************************)
EXTENDS Integers, Sequences, FiniteSets, TLC

VARIABLES stock, pre, op, divisors, updates, downsideSupplied,
          positions, fxRates, metrics,
          zoneQuery, zoneOutcome,
          exchangeRates, rateCall

\* The exchange-rate table and the last call of its service.
rateVars == <<exchangeRates, rateCall>>

vars == <<stock, pre, op, divisors, updates, downsideSupplied,
          positions, fxRates, metrics, zoneQuery, zoneOutcome, rateVars>>

(***************************************************************************)
(* float64 arithmetic                                                      *)
(***************************************************************************)
NaN == <<0, 0>>

Abs(n) == IF n < 0 THEN -n ELSE n

RECURSIVE GCD(_, _)
GCD(a, b) == IF b = 0 THEN a ELSE GCD(b, a % b)

\* n / d in lowest terms with a positive denominator; x / 0 is non-finite.
Norm(n, d) ==
  IF d = 0 THEN NaN
  ELSE IF d = 1 THEN <<n, 1>>
  ELSE IF d < 0 THEN <<(-n) \div GCD(Abs(n), -d), (-d) \div GCD(Abs(n), -d)>>
  ELSE <<n \div GCD(Abs(n), d), d \div GCD(Abs(n), d)>>

R(n) == <<n, 1>>

Frac(n, d) == Norm(n, d)

IsNaN(a) == a[2] = 0

\* The sum over the least common denominator.
RAdd(a, b) ==
  IF IsNaN(a) \/ IsNaN(b) THEN NaN
  ELSE IF a[2] = b[2] THEN Norm(a[1] + b[1], a[2])
  ELSE Norm(a[1] * (b[2] \div GCD(a[2], b[2])) + b[1] * (a[2] \div GCD(a[2], b[2])),
            (a[2] \div GCD(a[2], b[2])) * b[2])

RNeg(a) == IF IsNaN(a) THEN NaN ELSE <<-a[1], a[2]>>

RSub(a, b) == RAdd(a, RNeg(b))

\* The product, cancelling across the two fractions before multiplying.
RMul(a, b) ==
  IF IsNaN(a) \/ IsNaN(b) THEN NaN
  ELSE IF a[1] = 0 \/ b[1] = 0 THEN <<0, 1>>
  ELSE <<(a[1] \div GCD(Abs(a[1]), b[2])) * (b[1] \div GCD(Abs(b[1]), a[2])),
         (a[2] \div GCD(Abs(b[1]), a[2])) * (b[2] \div GCD(Abs(a[1]), b[2]))>>

\* 1 / b; 1 / 0 is non-finite in float64, it does not trap
RInv(b) ==
  IF IsNaN(b) \/ b[1] = 0 THEN NaN
  ELSE IF b[1] < 0 THEN <<-b[2], -b[1]>>
  ELSE <<b[2], b[1]>>

RDiv(a, b) == RMul(a, RInv(b))

RAbs(a) == IF IsNaN(a) THEN NaN ELSE <<Abs(a[1]), a[2]>>

\* The order of n1/d1 and n2/d2 (d1, d2 > 0) as -1, 0 or 1, by comparing the
\* integer parts and then the reciprocals of the fractional parts.
RECURSIVE Cmp(_, _, _, _)
Cmp(n1, d1, n2, d2) ==
  IF n1 \div d1 < n2 \div d2 THEN -1
  ELSE IF n1 \div d1 > n2 \div d2 THEN 1
  ELSE IF n1 % d1 = 0 /\ n2 % d2 = 0 THEN 0
  ELSE IF n1 % d1 = 0 THEN -1
  ELSE IF n2 % d2 = 0 THEN 1
  ELSE Cmp(d2, n2 % d2, d1, n1 % d1)

RLt(a, b) == ~IsNaN(a) /\ ~IsNaN(b) /\ Cmp(a[1], a[2], b[1], b[2]) < 0

RLe(a, b) == ~IsNaN(a) /\ ~IsNaN(b) /\ Cmp(a[1], a[2], b[1], b[2]) <= 0

RGt(a, b) == RLt(b, a)

RGe(a, b) == RLe(b, a)

REq(a, b) == ~IsNaN(a) /\ ~IsNaN(b) /\ a = b

Zero == <<0, 1>>

One == <<1, 1>>

(***************************************************************************)
(* Constants of pkg/services/calculations.go                               *)
(***************************************************************************)
defaultProbabilityPositive == <<13, 20>>

riskFreeRatePercent == <<4, 1>>

minDownsideMagnitude == <<1, 10>>

(***************************************************************************)
(* CalculateMetrics, block by block.  Every block takes and returns        *)
(* t = [stock, divs]: the record being recalculated in place and the set   *)
(* of divisors the call has evaluated so far.                              *)
(***************************************************************************)
\* Variant: the first breakpoint includes 0.5.
calibrateDownsideRisk_inclusive(beta) ==
  IF RLe(beta, <<1, 2>>) THEN R(-15)
  ELSE IF RLt(beta, One) THEN R(-20)
  ELSE IF RLt(beta, <<3, 2>>) THEN R(-25)
  ELSE R(-30)

calibrateDownsideRisk(beta) ==
  IF RLt(beta, <<1, 2>>) THEN R(-15)
  ELSE IF RLt(beta, One) THEN R(-20)
  ELSE IF RLt(beta, <<3, 2>>) THEN R(-25)
  ELSE R(-30)

\* Variant: calibration without the fallback for a missing beta.
downsideRiskStep_noFallback(t) ==
  IF REq(t.stock.DownsideRisk, Zero)
  THEN [t EXCEPT !.stock.DownsideRisk = calibrateDownsideRisk(t.stock.Beta)]
  ELSE t

\* Variant: the downside risk is always recalibrated from beta.
downsideRiskStep_always(t) ==
  IF RGt(t.stock.Beta, Zero)
  THEN [t EXCEPT !.stock.DownsideRisk = calibrateDownsideRisk(t.stock.Beta)]
  ELSE [t EXCEPT !.stock.DownsideRisk = R(-20)]

\* 1. Calibrate downside risk based on beta, unless explicitly provided.
downsideRiskStep(t) ==
  IF REq(t.stock.DownsideRisk, Zero)
  THEN IF RGt(t.stock.Beta, Zero)
       THEN [t EXCEPT !.stock.DownsideRisk = calibrateDownsideRisk(t.stock.Beta)]
       ELSE [t EXCEPT !.stock.DownsideRisk = R(-20)]
  ELSE t

\* Variant: the price guard is missing.
upsidePotentialStep_noPriceGuard(t) ==
  IF RGt(t.stock.FairValue, Zero)
  THEN [t EXCEPT !.stock.UpsidePotential =
                   RMul(RDiv(RSub(t.stock.FairValue, t.stock.CurrentPrice),
                             t.stock.CurrentPrice), R(100)),
                 !.divs = @ \cup {t.stock.CurrentPrice}]
  ELSE t

\* 2. Upside potential; the field keeps its value when the guard fails.
upsidePotentialStep(t) ==
  IF RGt(t.stock.CurrentPrice, Zero) /\ RGt(t.stock.FairValue, Zero)
  THEN [t EXCEPT !.stock.UpsidePotential =
                   RMul(RDiv(RSub(t.stock.FairValue, t.stock.CurrentPrice),
                             t.stock.CurrentPrice), R(100)),
                 !.divs = @ \cup {t.stock.CurrentPrice}]
  ELSE t

\* Variant: a zero probability is taken as given.
probabilityStep_keepsZero(t) ==
  IF RLt(t.stock.ProbabilityPositive, Zero) \/ RGt(t.stock.ProbabilityPositive, One)
  THEN [t EXCEPT !.stock.ProbabilityPositive = defaultProbabilityPositive]
  ELSE t

\* 3. Conservative default probability when missing/invalid.
probabilityStep(t) ==
  IF RLe(t.stock.ProbabilityPositive, Zero) \/ RGt(t.stock.ProbabilityPositive, One)
  THEN [t EXCEPT !.stock.ProbabilityPositive = defaultProbabilityPositive]
  ELSE t

\* The downside magnitude with its floor.
downsideMagnitudeOf(downsideRisk) ==
  IF RLt(RAbs(downsideRisk), minDownsideMagnitude)
  THEN minDownsideMagnitude
  ELSE RAbs(downsideRisk)

\* 4. b ratio with a floor on the downside magnitude.
bRatioStep(t) ==
  [t EXCEPT !.stock.BRatio =
              RDiv(t.stock.UpsidePotential, downsideMagnitudeOf(t.stock.DownsideRisk)),
            !.divs = @ \cup {downsideMagnitudeOf(t.stock.DownsideRisk)}]

\* Variant: the downside enters with its magnitude.
expectedValueStep_magnitude(t) ==
  [t EXCEPT !.stock.ExpectedValue =
              RAdd(RMul(t.stock.ProbabilityPositive, t.stock.UpsidePotential),
                   RMul(RSub(One, t.stock.ProbabilityPositive),
                        RAbs(t.stock.DownsideRisk)))]

\* Variant: the expected value is added to the stored one.
expectedValueStep_incremental(t) ==
  [t EXCEPT !.stock.ExpectedValue =
              RAdd(t.stock.ExpectedValue,
                   RAdd(RMul(t.stock.ProbabilityPositive, t.stock.UpsidePotential),
                        RMul(RSub(One, t.stock.ProbabilityPositive),
                             t.stock.DownsideRisk)))]

\* 5. Expected value.
expectedValueStep(t) ==
  [t EXCEPT !.stock.ExpectedValue =
              RAdd(RMul(t.stock.ProbabilityPositive, t.stock.UpsidePotential),
                   RMul(RSub(One, t.stock.ProbabilityPositive), t.stock.DownsideRisk))]

\* (b*p - q) / b in percent, q = 1 - p.
kellyOf(b, p) == RMul(RDiv(RSub(RMul(b, p), RSub(One, p)), b), R(100))

\* max(k, 0)
clampAtZero(k) == IF RLt(k, Zero) THEN Zero ELSE k

\* Variant: no clamp at 0.
kellyFractionStep_noClamp(t) ==
  IF RGt(t.stock.BRatio, Zero)
  THEN [t EXCEPT !.stock.KellyFraction =
                   kellyOf(t.stock.BRatio, t.stock.ProbabilityPositive),
                 !.divs = @ \cup {t.stock.BRatio}]
  ELSE [t EXCEPT !.stock.KellyFraction = Zero]

\* 6. Kelly fraction in percent, clamped at 0.
kellyFractionStep(t) ==
  IF RGt(t.stock.BRatio, Zero)
  THEN [t EXCEPT !.stock.KellyFraction =
                   clampAtZero(kellyOf(t.stock.BRatio, t.stock.ProbabilityPositive)),
                 !.divs = @ \cup {t.stock.BRatio}]
  ELSE [t EXCEPT !.stock.KellyFraction = Zero]

\* 7. Half-Kelly suggested weight, capped at 15%.
halfKellyStep(t) ==
  IF RGt(RDiv(t.stock.KellyFraction, R(2)), R(15))
  THEN [t EXCEPT !.stock.HalfKellySuggested = R(15)]
  ELSE [t EXCEPT !.stock.HalfKellySuggested = RDiv(t.stock.KellyFraction, R(2))]

\* Variant: EV = 7 already counts as Add.
assessmentStep_addAtSeven(t) ==
  [t EXCEPT !.stock.Assessment =
     IF RGe(t.stock.ExpectedValue, R(7)) THEN "Add"
     ELSE IF RGe(t.stock.ExpectedValue, R(3)) THEN "Hold"
     ELSE IF RGe(t.stock.ExpectedValue, Zero) THEN "Trim"
     ELSE "Sell"]

\* 8. Assessment thresholds.
assessmentStep(t) ==
  [t EXCEPT !.stock.Assessment =
     IF RGt(t.stock.ExpectedValue, R(7)) THEN "Add"
     ELSE IF RGe(t.stock.ExpectedValue, R(3)) /\ RLe(t.stock.ExpectedValue, R(7))
          THEN "Hold"
     ELSE IF RGe(t.stock.ExpectedValue, Zero) /\ RLt(t.stock.ExpectedValue, R(3))
          THEN "Trim"
     ELSE "Sell"]

\* Variant: the downside term enters with the wrong sign.
requiredUpsideOf_signSlip(probabilityPositive, downsideRisk) ==
  RDiv(RAdd(R(7), RMul(RSub(One, probabilityPositive), downsideRisk)),
       probabilityPositive)

\* requiredUpside := (targetEV - (1-p)*downside) / p, targetEV = 7.
requiredUpsideOf(probabilityPositive, downsideRisk) ==
  RDiv(RSub(R(7), RMul(RSub(One, probabilityPositive), downsideRisk)),
       probabilityPositive)

\* Variant: requiredUpside is taken as a fraction, not as a percentage.
buyZoneFrom_noPercent(t, requiredUpside) ==
  IF RGt(requiredUpside, R(-100))
  THEN [t EXCEPT !.stock.BuyZoneMax =
                   RDiv(t.stock.FairValue, RAdd(One, requiredUpside)),
                 !.stock.BuyZoneMin =
                   RMul(RDiv(t.stock.FairValue, RAdd(One, requiredUpside)), <<9, 10>>),
                 !.divs = @ \cup {t.stock.ProbabilityPositive,
                                  RAdd(One, RDiv(requiredUpside, R(100)))}]
  ELSE [t EXCEPT !.stock.BuyZoneMin = RMul(t.stock.CurrentPrice, <<17, 20>>),
                 !.stock.BuyZoneMax = RMul(t.stock.CurrentPrice, <<19, 20>>),
                 !.divs = @ \cup {t.stock.ProbabilityPositive}]

\* The two branches of the buy zone for a given requiredUpside.
buyZoneFrom(t, requiredUpside) ==
  IF RGt(requiredUpside, R(-100))
  THEN [t EXCEPT !.stock.BuyZoneMax =
                   RDiv(t.stock.FairValue, RAdd(One, RDiv(requiredUpside, R(100)))),
                 !.stock.BuyZoneMin =
                   RMul(RDiv(t.stock.FairValue, RAdd(One, RDiv(requiredUpside, R(100)))),
                        <<9, 10>>),
                 !.divs = @ \cup {t.stock.ProbabilityPositive,
                                  RAdd(One, RDiv(requiredUpside, R(100)))}]
  ELSE [t EXCEPT !.stock.BuyZoneMin = RMul(t.stock.CurrentPrice, <<17, 20>>),
                 !.stock.BuyZoneMax = RMul(t.stock.CurrentPrice, <<19, 20>>),
                 !.divs = @ \cup {t.stock.ProbabilityPositive}]

\* 9. Buy zone for the EV >= 7% entry threshold; both fields keep their
\* values when the guard fails.
buyZoneStep(t) ==
  IF RGt(t.stock.FairValue, Zero) /\ RGt(t.stock.ProbabilityPositive, Zero)
  THEN buyZoneFrom(t, requiredUpsideOf(t.stock.ProbabilityPositive, t.stock.DownsideRisk))
  ELSE t

\* The forward formula: EV at a supplied price, 0 for a price <= 0.
expectedValueAtPrice(fairValue, probabilityPositive, downsideRisk, currentPrice) ==
  IF RLe(currentPrice, Zero) THEN Zero
  ELSE RAdd(RMul(probabilityPositive,
                 RMul(RDiv(RSub(fairValue, currentPrice), currentPrice), R(100))),
            RMul(RSub(One, probabilityPositive), downsideRisk))

\* Variant: the downside enters the denominator with its sign.
solvePriceForEVThreshold_signedDownside(fairValue, probabilityPositive, downsideRisk, evThreshold) ==
  LET denominator == RAdd(RAdd(evThreshold, RMul(R(100), probabilityPositive)),
                          RMul(RSub(One, probabilityPositive), downsideRisk))
      price == RDiv(RMul(RMul(R(100), probabilityPositive), fairValue), denominator)
  IN  IF RLe(denominator, Zero)
      THEN [price |-> Zero, ok |-> FALSE, divs |-> {}]
      ELSE IF IsNaN(price) \/ RLe(price, Zero)
      THEN [price |-> Zero, ok |-> FALSE, divs |-> {denominator}]
      ELSE [price |-> price, ok |-> TRUE, divs |-> {denominator}]

\* price = 100*p*fairValue / (evThreshold + 100*p + (1-p)*|downside|); not ok
\* for a denominator <= 0 and for a price that is NaN or <= 0.
solvePriceForEVThreshold(fairValue, probabilityPositive, downsideRisk, evThreshold) ==
  LET downsideMagnitude == RAbs(downsideRisk)
      denominator == RAdd(RAdd(evThreshold, RMul(R(100), probabilityPositive)),
                          RMul(RSub(One, probabilityPositive), downsideMagnitude))
      price == RDiv(RMul(RMul(R(100), probabilityPositive), fairValue), denominator)
  IN  IF RLe(denominator, Zero)
      THEN [price |-> Zero, ok |-> FALSE, divs |-> {}]
      ELSE IF IsNaN(price) \/ RLe(price, Zero)
      THEN [price |-> Zero, ok |-> FALSE, divs |-> {denominator}]
      ELSE [price |-> price, ok |-> TRUE, divs |-> {denominator}]

\* Variant: EV = 3 already counts as below the sell zone.
sellZoneFrom_inclusive(t, trim, sell) ==
  IF trim.ok /\ sell.ok /\ RLt(trim.price, sell.price)
  THEN [t EXCEPT !.stock.SellZoneLowerBound = trim.price,
                 !.stock.SellZoneUpperBound = sell.price,
                 !.stock.SellZoneStatus =
                   IF RGe(t.stock.ExpectedValue, R(3)) THEN "Below sell zone"
                   ELSE IF RGt(t.stock.ExpectedValue, Zero) THEN "In trim zone"
                   ELSE "In sell zone",
                 !.divs = @ \cup trim.divs \cup sell.divs]
  ELSE [t EXCEPT !.stock.SellZoneLowerBound = Zero,
                 !.stock.SellZoneUpperBound = Zero,
                 !.stock.SellZoneStatus = "no sell zone",
                 !.divs = @ \cup trim.divs \cup sell.divs]

\* The sell zone from the two solved thresholds.
sellZoneFrom(t, trim, sell) ==
  IF trim.ok /\ sell.ok /\ RLt(trim.price, sell.price)
  THEN [t EXCEPT !.stock.SellZoneLowerBound = trim.price,
                 !.stock.SellZoneUpperBound = sell.price,
                 !.stock.SellZoneStatus =
                   IF RGt(t.stock.ExpectedValue, R(3)) THEN "Below sell zone"
                   ELSE IF RGt(t.stock.ExpectedValue, Zero) THEN "In trim zone"
                   ELSE "In sell zone",
                 !.divs = @ \cup trim.divs \cup sell.divs]
  ELSE [t EXCEPT !.stock.SellZoneLowerBound = Zero,
                 !.stock.SellZoneUpperBound = Zero,
                 !.stock.SellZoneStatus = "no sell zone",
                 !.divs = @ \cup trim.divs \cup sell.divs]

\* 10. Sell zone: lower bound at EV = 3%, upper bound at EV = 0%.
sellZoneStep(t) ==
  sellZoneFrom(t,
    solvePriceForEVThreshold(t.stock.FairValue, t.stock.ProbabilityPositive,
                             t.stock.DownsideRisk, R(3)),
    solvePriceForEVThreshold(t.stock.FairValue, t.stock.ProbabilityPositive,
                             t.stock.DownsideRisk, Zero))

\* CalculateMetrics on s, in program order, with the divisors it evaluated.
metricsTrace(s) ==
  sellZoneStep(buyZoneStep(assessmentStep(halfKellyStep(kellyFractionStep(
    expectedValueStep(bRatioStep(probabilityStep(upsidePotentialStep(
      downsideRiskStep([stock |-> s, divs |-> {}]))))))))))

CalculateMetrics(s) == metricsTrace(s).stock

(***************************************************************************)
(* Input grids.  Prices are multiples of 100 from -100 up to               *)
(* 100 * MaxPriceSteps; the other inputs are the values at and around the  *)
(* branch points of the code.                                              *)
(***************************************************************************)
MaxPriceSteps == 1

PriceValues == {<<100 * k, 1>> : k \in -1..MaxPriceSteps}

FairValueValues == {<<-120, 1>>, <<0, 1>>, <<102, 1>>, <<120, 1>>}

BetaValues ==
  {<<-1, 1>>, <<0, 1>>, <<2, 5>>, <<1, 2>>, <<1, 1>>, <<6, 5>>, <<3, 2>>, <<2, 1>>}

ProbabilityValues == {<<-1, 2>>, <<0, 1>>, <<1, 10>>, <<1, 2>>, <<1, 1>>, <<3, 2>>}

DownsideValues ==
  {<<0, 1>>, <<-6, 1>>, <<-14, 1>>, <<-20, 1>>, <<5, 1>>, <<200, 1>>, <<-1, 20>>}

\* The number of scheduler runs on the record.
MaxUpdates == 1

\* What the scheduler's data sources return for an existing record.
FetchedPrices == {<<0, 1>>, <<100, 1>>}

FetchedFairValues == {<<0, 1>>, <<120, 1>>}

FetchedBetas == {<<2, 5>>, <<2, 1>>}

\* Beta is read only when the downside risk is unset: every beta with an
\* unset downside risk, two betas with each explicit downside risk.
BetaDownsideValues ==
  {bd \in BetaValues \X DownsideValues : bd[2] = Zero \/ bd[1] \in FetchedBetas}

\* models.Stock{...}: the fields the engine reads or writes; every field
\* that is not given has Go's zero value.
NewStock(price, fairValue, beta, p, downside) ==
  [CurrentPrice |-> price, FairValue |-> fairValue, Beta |-> beta,
   ProbabilityPositive |-> p, DownsideRisk |-> downside,
   SharesOwned |-> 10, AvgPriceLocal |-> R(90), Currency |-> "USD",
   Sector |-> "Tech", Volatility |-> R(10),
   UpsidePotential |-> Zero, BRatio |-> Zero, ExpectedValue |-> Zero,
   KellyFraction |-> Zero, HalfKellySuggested |-> Zero, Assessment |-> "",
   BuyZoneMin |-> Zero, BuyZoneMax |-> Zero,
   SellZoneLowerBound |-> Zero, SellZoneUpperBound |-> Zero, SellZoneStatus |-> "",
   Weight |-> Zero, CurrentValueUSD |-> Zero]

NoMetrics ==
  [TotalValue |-> Zero, OverallEV |-> Zero, WeightedVolatility |-> Zero,
   SharpeRatio |-> Zero, KellyUtilization |-> Zero, SectorWeights |-> <<>>]

\* No exchange-rate record is stored and no call of the service was made.
NoRates == <<>>

NoRateCall == [code |-> "", err |-> "nil", fetched |-> <<>>]

\* No zone query has been made.
NoQuery ==
  [fairValue |-> Zero, probabilityPositive |-> Zero, downsideRisk |-> Zero,
   currentPrice |-> Zero]

NoOutcome == [result |-> <<>>, err |-> "nil"]

(***************************************************************************)
(* Position record: a stock is created, then recalculated in place by      *)
(* direct calls and by the scheduler's updateStock.                        *)
(***************************************************************************)
Init ==
  /\ stock \in {NewStock(pr, fv, bd[1], p, bd[2]) :
                  pr \in PriceValues, fv \in FairValueValues,
                  p \in ProbabilityValues, bd \in BetaDownsideValues}
  /\ pre = stock
  /\ op = "new"
  /\ divisors = {}
  /\ updates = 0
  /\ downsideSupplied = (stock.DownsideRisk # Zero)
  /\ positions = <<>>
  /\ fxRates = <<>>
  /\ metrics = NoMetrics
  /\ zoneQuery = NoQuery
  /\ zoneOutcome = NoOutcome
  /\ exchangeRates = NoRates
  /\ rateCall = NoRateCall

\* services.CalculateMetrics(&stock) on the record as it stands.
CalculateMetricsCall ==
  /\ pre' = stock
  /\ \E t \in {metricsTrace(stock)} :
       stock' = t.stock /\ divisors' = t.divs
  /\ op' = "CalculateMetrics"
  /\ UNCHANGED <<updates, downsideSupplied, positions, fxRates, metrics,
                 zoneQuery, zoneOutcome, rateVars>>

\* scheduler.updateStock: the fetched price and the analysis fields replace
\* the stored ones, then the metrics are recalculated on the same record.
updateStock ==
  \E price \in FetchedPrices, fairValue \in FetchedFairValues, beta \in FetchedBetas :
    LET fetched == [stock EXCEPT !.CurrentPrice = price,
                                 !.FairValue = fairValue,
                                 !.Beta = beta]
    IN  /\ op # "new"
        /\ updates < MaxUpdates
        /\ updates' = updates + 1
        /\ pre' = fetched
        /\ \E t \in {metricsTrace(fetched)} :
             stock' = t.stock /\ divisors' = t.divs
        /\ op' = "updateStock"
        /\ UNCHANGED <<downsideSupplied, positions, fxRates, metrics,
                       zoneQuery, zoneOutcome, rateVars>>

Next == CalculateMetricsCall \/ updateStock

Spec == Init /\ [][Next]_vars

(***************************************************************************)
(* CalculatePortfolioMetrics                                               *)
(***************************************************************************)
\* Variant: a missing or zero rate is taken as 1.0.
RateOf_defaultOne(rates, currency) ==
  IF currency \in DOMAIN rates /\ rates[currency] # Zero THEN rates[currency] ELSE One

\* fxRates[stock.Currency]: a Go map yields 0 for a missing key.
RateOf(rates, currency) ==
  IF currency \in DOMAIN rates THEN rates[currency] ELSE Zero

\* Variant: the bucket is assigned, not accumulated.
AddToBucket_overwrite(m, sector, w) ==
  IF sector \in DOMAIN m THEN [m EXCEPT ![sector] = w]
  ELSE m @@ (sector :> w)

\* sectorWeights[sector] += w: the first occurrence creates the bucket.
AddToBucket(m, sector, w) ==
  IF sector \in DOMAIN m THEN [m EXCEPT ![sector] = RAdd(@, w)]
  ELSE m @@ (sector :> w)

\* Variant of the first pass without the check of the shares owned.
RECURSIVE firstPass_noSharesGuard(_, _, _)
firstPass_noSharesGuard(stocks, rates, n) ==
  IF n = 0 THEN [stockValues |-> <<>>, totalValue |-> Zero]
  ELSE LET acc    == firstPass_noSharesGuard(stocks, rates, n - 1)
           st     == stocks[n]
           fxRate == RateOf(rates, st.Currency)
           valueEUR == RDiv(RMul(R(st.SharesOwned), st.CurrentPrice), fxRate)
       IN  IF RLe(fxRate, Zero)
           THEN [stockValues |-> Append(acc.stockValues, Zero),
                 totalValue  |-> acc.totalValue]
           ELSE [stockValues |-> Append(acc.stockValues, valueEUR),
                 totalValue  |-> RAdd(acc.totalValue, valueEUR)]

\* First pass, positions 1..n: stockValues and totalValue.
RECURSIVE firstPass(_, _, _)
firstPass(stocks, rates, n) ==
  IF n = 0 THEN [stockValues |-> <<>>, totalValue |-> Zero]
  ELSE LET acc    == firstPass(stocks, rates, n - 1)
           st     == stocks[n]
           fxRate == RateOf(rates, st.Currency)
           valueEUR == RDiv(RMul(R(st.SharesOwned), st.CurrentPrice), fxRate)
       IN  IF st.SharesOwned <= 0 \/ RLe(fxRate, Zero)
           THEN [stockValues |-> Append(acc.stockValues, Zero),
                 totalValue  |-> acc.totalValue]
           ELSE [stockValues |-> Append(acc.stockValues, valueEUR),
                 totalValue  |-> RAdd(acc.totalValue, valueEUR)]

\* The sum of stockValues[1..n].
RECURSIVE PartialTotal(_, _)
PartialTotal(stockValues, n) ==
  IF n = 0 THEN Zero ELSE RAdd(PartialTotal(stockValues, n - 1), stockValues[n])

\* Variant of the second pass: the weight is taken against the running
\* total of the positions seen so far, as in a single-pass aggregation.
RECURSIVE secondPass_runningTotal(_, _, _, _)
secondPass_runningTotal(stocks, stockValues, totalValue, n) ==
  IF n = 0
  THEN [weightedEV |-> Zero, weightedVolatility |-> Zero,
        sectorWeights |-> <<>>, kellyUtilization |-> Zero]
  ELSE LET acc == secondPass_runningTotal(stocks, stockValues, totalValue, n - 1)
           st  == stocks[n]
           running == PartialTotal(stockValues, n)
           weight == RDiv(stockValues[n], running)
       IN  IF st.SharesOwned > 0 /\ RGt(running, Zero) /\ RGt(stockValues[n], Zero)
           THEN [weightedEV |-> RAdd(acc.weightedEV, RMul(st.ExpectedValue, weight)),
                 weightedVolatility |->
                   RAdd(acc.weightedVolatility, RMul(st.Volatility, weight)),
                 sectorWeights |->
                   AddToBucket(acc.sectorWeights, st.Sector, RMul(weight, R(100))),
                 kellyUtilization |-> RAdd(acc.kellyUtilization, RMul(weight, R(100)))]
           ELSE acc

\* Variant of the second pass: Kelly utilization sums the weights as
\* fractions, not in percent.
RECURSIVE secondPass_fraction(_, _, _, _)
secondPass_fraction(stocks, stockValues, totalValue, n) ==
  IF n = 0
  THEN [weightedEV |-> Zero, weightedVolatility |-> Zero,
        sectorWeights |-> <<>>, kellyUtilization |-> Zero]
  ELSE LET acc == secondPass_fraction(stocks, stockValues, totalValue, n - 1)
           st  == stocks[n]
           weight == RDiv(stockValues[n], totalValue)
       IN  IF st.SharesOwned > 0 /\ RGt(totalValue, Zero) /\ RGt(stockValues[n], Zero)
           THEN [weightedEV |-> RAdd(acc.weightedEV, RMul(st.ExpectedValue, weight)),
                 weightedVolatility |->
                   RAdd(acc.weightedVolatility, RMul(st.Volatility, weight)),
                 sectorWeights |->
                   AddToBucket(acc.sectorWeights, st.Sector, RMul(weight, R(100))),
                 kellyUtilization |-> RAdd(acc.kellyUtilization, weight)]
           ELSE acc

\* Second pass, positions 1..n: the weighted aggregates against totalValue.
RECURSIVE secondPass(_, _, _, _)
secondPass(stocks, stockValues, totalValue, n) ==
  IF n = 0
  THEN [weightedEV |-> Zero, weightedVolatility |-> Zero,
        sectorWeights |-> <<>>, kellyUtilization |-> Zero]
  ELSE LET acc == secondPass(stocks, stockValues, totalValue, n - 1)
           st  == stocks[n]
           weight == RDiv(stockValues[n], totalValue)
       IN  IF st.SharesOwned > 0 /\ RGt(totalValue, Zero) /\ RGt(stockValues[n], Zero)
           THEN [weightedEV |-> RAdd(acc.weightedEV, RMul(st.ExpectedValue, weight)),
                 weightedVolatility |->
                   RAdd(acc.weightedVolatility, RMul(st.Volatility, weight)),
                 sectorWeights |->
                   AddToBucket(acc.sectorWeights, st.Sector, RMul(weight, R(100))),
                 kellyUtilization |-> RAdd(acc.kellyUtilization, RMul(weight, R(100)))]
           ELSE acc

CalculatePortfolioMetrics(stocks, rates) ==
  LET p1 == firstPass(stocks, rates, Len(stocks))
      p2 == secondPass(stocks, p1.stockValues, p1.totalValue, Len(stocks))
      sharpeRatio == IF RGt(p2.weightedVolatility, Zero)
                     THEN RDiv(RSub(p2.weightedEV, riskFreeRatePercent),
                               p2.weightedVolatility)
                     ELSE Zero
  IN  [TotalValue |-> p1.totalValue, OverallEV |-> p2.weightedEV,
       WeightedVolatility |-> p2.weightedVolatility, SharpeRatio |-> sharpeRatio,
       KellyUtilization |-> p2.kellyUtilization, SectorWeights |-> p2.sectorWeights]

(***************************************************************************)
(* Portfolio: positions are added to the stored list and the summary is    *)
(* computed from the list and the rate table as they stand.                *)
(***************************************************************************)
MaxPositions == 3

Holding(shares, price, currency, ev, volatility, sector) ==
  [NewStock(price, Zero, Zero, Zero, Zero)
     EXCEPT !.SharesOwned = shares, !.Currency = currency,
            !.ExpectedValue = ev, !.Volatility = volatility, !.Sector = sector]

HoldingValues ==
  {Holding(10, R(100), "USD", R(5), R(10), "Tech"),
   Holding(5, R(200), "EUR", One, R(20), "Health"),
   Holding(0, R(999), "USD", R(9), R(30), "Ignored"),
   Holding(4, R(50), "GBP", R(-2), R(15), "Tech"),
   Holding(-3, R(100), "USD", R(7), R(12), "Energy"),
   Holding(10, Zero, "USD", Zero, Zero, "Health")}

\* Units of the currency per 1 EUR; GBP is missing, non-positive or valid.
RateTables ==
  {("USD" :> One) @@ ("EUR" :> R(2)),
   ("USD" :> One) @@ ("EUR" :> R(2)) @@ ("GBP" :> R(-1)),
   ("USD" :> One) @@ ("EUR" :> R(2)) @@ ("GBP" :> Frac(4, 5))}

InitPortfolio ==
  /\ positions = <<>>
  /\ fxRates \in RateTables
  /\ metrics = NoMetrics
  /\ op = "new"
  /\ stock = NewStock(Zero, Zero, Zero, Zero, Zero)
  /\ pre = stock
  /\ divisors = {}
  /\ updates = 0
  /\ downsideSupplied = FALSE
  /\ zoneQuery = NoQuery
  /\ zoneOutcome = NoOutcome
  /\ exchangeRates = NoRates
  /\ rateCall = NoRateCall

AddPosition ==
  \E h \in HoldingValues :
    /\ Len(positions) < MaxPositions
    /\ positions' = Append(positions, h)
    /\ op' = "AddPosition"
    /\ UNCHANGED <<stock, pre, divisors, updates, downsideSupplied, fxRates, metrics,
                   zoneQuery, zoneOutcome, rateVars>>

CalculatePortfolioMetricsCall ==
  /\ metrics' = CalculatePortfolioMetrics(positions, fxRates)
  /\ op' = "CalculatePortfolioMetrics"
  /\ UNCHANGED <<stock, pre, divisors, updates, downsideSupplied, positions, fxRates,
                 zoneQuery, zoneOutcome, rateVars>>

\* The rate the summary handler converts with: fxRates[stock.Currency],
\* and 1.0 when that is 0 (a missing key included).
summaryRate(rates, currency) ==
  IF RateOf(rates, currency) = Zero THEN One ELSE RateOf(rates, currency)

\* One iteration of the handler's loop over the stocks: an owned stock gets
\* its weight and its USD value when the total value is positive.
weightedStock(st, rates, totalValue) ==
  IF st.SharesOwned <= 0 THEN st
  ELSE IF RGt(totalValue, Zero)
  THEN [st EXCEPT
          !.Weight =
             RMul(RDiv(RDiv(RMul(R(st.SharesOwned), st.CurrentPrice),
                            summaryRate(rates, st.Currency)),
                       totalValue),
                  R(100)),
          !.CurrentValueUSD =
             RMul(RDiv(RMul(R(st.SharesOwned), st.CurrentPrice),
                       summaryRate(rates, st.Currency)),
                  RateOf(rates, "USD"))]
  ELSE st

\* PortfolioHandler.GetPortfolioSummary: the summary of the stored stocks
\* under the rate table, then the weight of every owned stock is stored.
GetPortfolioSummary ==
  \E m \in {CalculatePortfolioMetrics(positions, fxRates)} :
    /\ metrics' = m
    /\ positions' = [i \in 1..Len(positions) |->
                       weightedStock(positions[i], fxRates, m.TotalValue)]
    /\ op' = "GetPortfolioSummary"
    /\ UNCHANGED <<stock, pre, divisors, updates, downsideSupplied, fxRates,
                   zoneQuery, zoneOutcome, rateVars>>

NextPortfolio == AddPosition \/ CalculatePortfolioMetricsCall \/ GetPortfolioSummary

SpecPortfolio == InitPortfolio /\ [][NextPortfolio]_vars

(***************************************************************************)
(* Zone queries: CalculateBuyZoneResult and CalculateSellZoneResult on     *)
(* explicit arguments.  An outcome is [result, err]; err = "nil" is Go's   *)
(* nil error.                                                              *)
(***************************************************************************)
\* Variant: a zero downside risk passes the validation.
zoneInputError_allowsZeroDownside(fairValue, probabilityPositive, downsideRisk) ==
  IF RLt(probabilityPositive, Zero) \/ RGt(probabilityPositive, One)
  THEN "probability_positive must be between 0 and 1"
  ELSE IF RGt(downsideRisk, Zero) THEN "downside_risk must be negative"
  ELSE IF RLe(fairValue, Zero) THEN "fair_value must be positive"
  ELSE "nil"

\* The validation both entry points start with.
zoneInputError(fairValue, probabilityPositive, downsideRisk) ==
  IF RLt(probabilityPositive, Zero) \/ RGt(probabilityPositive, One)
  THEN "probability_positive must be between 0 and 1"
  ELSE IF RGe(downsideRisk, Zero) THEN "downside_risk must be negative"
  ELSE IF RLe(fairValue, Zero) THEN "fair_value must be positive"
  ELSE "nil"

\* Variant: a price equal to the upper bound is outside the zone.
buyZoneStatus_exclusiveUpper(currentPrice, lowerBound, upperBound) ==
  IF RLt(currentPrice, lowerBound) THEN "EV >> 15%"
  ELSE IF RLt(currentPrice, upperBound) THEN "within buy zone"
  ELSE "outside buy zone"

\* The classification switch of CalculateBuyZoneResult.
buyZoneStatus(currentPrice, lowerBound, upperBound) ==
  IF RLt(currentPrice, lowerBound) THEN "EV >> 15%"
  ELSE IF RLe(currentPrice, upperBound) THEN "within buy zone"
  ELSE "outside buy zone"

\* Variant: an EV of exactly 3 still counts as below the sell zone.
sellZoneStatus_inclusive(currentExpectedValue) ==
  IF RGe(currentExpectedValue, R(3)) THEN "Below sell zone"
  ELSE IF RGt(currentExpectedValue, Zero) THEN "In trim zone"
  ELSE "In sell zone"

\* The classification switch of CalculateSellZoneResult.
sellZoneStatus(currentExpectedValue) ==
  IF RGt(currentExpectedValue, R(3)) THEN "Below sell zone"
  ELSE IF RGt(currentExpectedValue, Zero) THEN "In trim zone"
  ELSE "In sell zone"

\* BuyZoneCalculationResult{Ticker, FairValue, ProbabilityPositive, DownsideRisk}
NewBuyZoneResult(ticker, fairValue, probabilityPositive, downsideRisk) ==
  [Ticker |-> ticker, FairValue |-> fairValue,
   ProbabilityPositive |-> probabilityPositive, DownsideRisk |-> downsideRisk,
   BuyZone |-> [LowerBound |-> Zero, UpperBound |-> Zero],
   CurrentExpectedValue |-> Zero, ZoneStatus |-> ""]

\* CalculateBuyZoneResult after the validation, from the two solves.
buyZoneResultFrom(result, lower, upper, currentPrice) ==
  IF ~lower.ok \/ ~upper.ok
  THEN [result EXCEPT !.ZoneStatus = "no buy zone available"]
  ELSE IF RGt(lower.price, upper.price)
  THEN [result EXCEPT !.BuyZone = [LowerBound |-> lower.price, UpperBound |-> upper.price],
                      !.ZoneStatus = "no buy zone available"]
  ELSE IF RGt(currentPrice, Zero)
  THEN [result EXCEPT !.BuyZone = [LowerBound |-> lower.price, UpperBound |-> upper.price],
                      !.CurrentExpectedValue =
                        expectedValueAtPrice(result.FairValue, result.ProbabilityPositive,
                                             result.DownsideRisk, currentPrice),
                      !.ZoneStatus = buyZoneStatus(currentPrice, lower.price, upper.price)]
  ELSE [result EXCEPT !.BuyZone = [LowerBound |-> lower.price, UpperBound |-> upper.price]]

\* Variant: the two EV thresholds are exchanged.
CalculateBuyZoneResult_swapped(ticker, fairValue, probabilityPositive, downsideRisk, currentPrice) ==
  IF zoneInputError(fairValue, probabilityPositive, downsideRisk) # "nil"
  THEN [result |-> NewBuyZoneResult(ticker, fairValue, probabilityPositive, downsideRisk),
        err    |-> zoneInputError(fairValue, probabilityPositive, downsideRisk)]
  ELSE [result |->
          buyZoneResultFrom(
            NewBuyZoneResult(ticker, fairValue, probabilityPositive, downsideRisk),
            solvePriceForEVThreshold(fairValue, probabilityPositive, downsideRisk, R(7)),
            solvePriceForEVThreshold(fairValue, probabilityPositive, downsideRisk, R(15)),
            currentPrice),
        err |-> "nil"]

\* Validation, the solves for EV = 15 (lower bound) and EV = 7 (upper
\* bound), then the classification.
CalculateBuyZoneResult(ticker, fairValue, probabilityPositive, downsideRisk, currentPrice) ==
  IF zoneInputError(fairValue, probabilityPositive, downsideRisk) # "nil"
  THEN [result |-> NewBuyZoneResult(ticker, fairValue, probabilityPositive, downsideRisk),
        err    |-> zoneInputError(fairValue, probabilityPositive, downsideRisk)]
  ELSE [result |->
          buyZoneResultFrom(
            NewBuyZoneResult(ticker, fairValue, probabilityPositive, downsideRisk),
            solvePriceForEVThreshold(fairValue, probabilityPositive, downsideRisk, R(15)),
            solvePriceForEVThreshold(fairValue, probabilityPositive, downsideRisk, R(7)),
            currentPrice),
        err |-> "nil"]

\* SellZoneCalculationResult{Ticker, FairValue, ProbabilityPositive, DownsideRisk}
NewSellZoneResult(ticker, fairValue, probabilityPositive, downsideRisk) ==
  [Ticker |-> ticker, FairValue |-> fairValue,
   ProbabilityPositive |-> probabilityPositive, DownsideRisk |-> downsideRisk,
   SellZone |-> [LowerBound |-> Zero, UpperBound |-> Zero],
   CurrentExpectedValue |-> Zero, SellZoneStatus |-> ""]

\* The current EV and its label, set only for a positive price.
sellZoneClassified(result, currentExpectedValue) ==
  [result EXCEPT !.CurrentExpectedValue = currentExpectedValue,
                 !.SellZoneStatus = sellZoneStatus(currentExpectedValue)]

\* CalculateSellZoneResult after the validation, from the two solves.
sellZoneResultFrom(result, trim, sell, currentPrice) ==
  IF ~trim.ok \/ ~sell.ok \/ RGe(trim.price, sell.price)
  THEN [result EXCEPT !.SellZoneStatus = "no sell zone"]
  ELSE IF RGt(currentPrice, Zero)
  THEN sellZoneClassified(
         [result EXCEPT !.SellZone = [LowerBound |-> trim.price, UpperBound |-> sell.price]],
         expectedValueAtPrice(result.FairValue, result.ProbabilityPositive,
                              result.DownsideRisk, currentPrice))
  ELSE [result EXCEPT !.SellZone = [LowerBound |-> trim.price, UpperBound |-> sell.price]]

CalculateSellZoneResult(ticker, fairValue, probabilityPositive, downsideRisk, currentPrice) ==
  IF zoneInputError(fairValue, probabilityPositive, downsideRisk) # "nil"
  THEN [result |-> NewSellZoneResult(ticker, fairValue, probabilityPositive, downsideRisk),
        err    |-> zoneInputError(fairValue, probabilityPositive, downsideRisk)]
  ELSE [result |->
          sellZoneResultFrom(
            NewSellZoneResult(ticker, fairValue, probabilityPositive, downsideRisk),
            solvePriceForEVThreshold(fairValue, probabilityPositive, downsideRisk, R(3)),
            solvePriceForEVThreshold(fairValue, probabilityPositive, downsideRisk, Zero),
            currentPrice),
        err |-> "nil"]

\* The arguments of a zone query, fixed for a behaviour and passed to either
\* entry point any number of times: the values of the calls in the tests
\* and the values at the branch points of the validation and of the
\* classification (with probability 1 the fair values 100, 103, 107 and 115
\* put a sell or buy bound at the price 100).
ZoneFairValues ==
  {<<-120, 1>>, <<0, 1>>, <<100, 1>>, <<103, 1>>, <<107, 1>>, <<115, 1>>, <<120, 1>>,
   <<380, 1>>}

ZoneProbabilities == {<<-1, 10>>, <<0, 1>>, <<13, 20>>, <<1, 1>>, <<6, 5>>}

ZoneDownsides == {<<-25, 1>>, <<-15, 1>>, <<0, 1>>, <<20, 1>>}

ZonePrices == {<<-100, 1>>, <<0, 1>>, <<80, 1>>, <<90, 1>>, <<100, 1>>, <<350, 1>>}

InitZones ==
  /\ zoneQuery \in [fairValue : ZoneFairValues, probabilityPositive : ZoneProbabilities,
                     downsideRisk : ZoneDownsides, currentPrice : ZonePrices]
  /\ zoneOutcome = NoOutcome
  /\ exchangeRates = NoRates
  /\ rateCall = NoRateCall
  /\ op = "new"
  /\ stock = NewStock(Zero, Zero, Zero, Zero, Zero)
  /\ pre = stock
  /\ divisors = {}
  /\ updates = 0
  /\ downsideSupplied = FALSE
  /\ positions = <<>>
  /\ fxRates = <<>>
  /\ metrics = NoMetrics

CalculateBuyZoneResultCall ==
  /\ zoneOutcome' = CalculateBuyZoneResult("UNH", zoneQuery.fairValue,
                                           zoneQuery.probabilityPositive,
                                           zoneQuery.downsideRisk, zoneQuery.currentPrice)
  /\ op' = "CalculateBuyZoneResult"
  /\ UNCHANGED <<stock, pre, divisors, updates, downsideSupplied, positions, fxRates,
                 metrics, zoneQuery, rateVars>>

CalculateSellZoneResultCall ==
  /\ zoneOutcome' = CalculateSellZoneResult("UNH", zoneQuery.fairValue,
                                            zoneQuery.probabilityPositive,
                                            zoneQuery.downsideRisk, zoneQuery.currentPrice)
  /\ op' = "CalculateSellZoneResult"
  /\ UNCHANGED <<stock, pre, divisors, updates, downsideSupplied, positions, fxRates,
                 metrics, zoneQuery, rateVars>>

NextZones == CalculateBuyZoneResultCall \/ CalculateSellZoneResultCall

SpecZones == InitZones /\ [][NextZones]_vars

(***************************************************************************)
(* ExchangeRateService: the table of exchange rates, one record for a      *)
(* currency code, and the operations of the service on it.                 *)
(***************************************************************************)
\* models.ExchangeRate{CurrencyCode, Rate, IsActive, IsManual}; the code is
\* the key of the table.
NewExchangeRate(rate, isManual) ==
  [Rate |-> rate, IsManual |-> isManual, IsActive |-> TRUE]

\* Variant: the fetched rate is stored whether or not the rate is manual.
fetchedRecord_overwritesManual(exchangeRate, rate) ==
  [exchangeRate EXCEPT !.Rate = rate]

\* FetchLatestRates, one tracked currency of the response: the rate is
\* replaced if it is not manually set.
fetchedRecord(exchangeRate, rate) ==
  IF ~exchangeRate.IsManual THEN [exchangeRate EXCEPT !.Rate = rate]
  ELSE exchangeRate

\* FetchLatestRates, the loop over the conversion rates of the response; a
\* code without a record is skipped.
fetchedTable(table, conversionRates) ==
  [c \in DOMAIN table |->
     IF c \in DOMAIN conversionRates
     THEN fetchedRecord(table[c], conversionRates[c])
     ELSE table[c]]

\* GetAllRates: the active records (their codes).
GetAllRates(table) == {c \in DOMAIN table : table[c].IsActive}

\* GetRatesMap: the currency code -> rate map of the active records.
GetRatesMap(table) == [c \in GetAllRates(table) |-> table[c].Rate]

\* UpdateRate: the record of the code gets the rate and the manual flag;
\* an error when there is no record.
updatedTable(table, currencyCode, rate, isManual) ==
  IF currencyCode \in DOMAIN table
  THEN [table |-> [table EXCEPT ![currencyCode].Rate = rate,
                                ![currencyCode].IsManual = isManual],
        err |-> "nil"]
  ELSE [table |-> table, err |-> "record not found"]

defaultCurrencies == {"USD", "DKK", "GBP", "RUB"}

\* Variant: only the base currency is protected.
deletedTable_baseOnly(table, currencyCode) ==
  IF currencyCode = "EUR"
  THEN [table |-> table, err |-> "cannot delete base currency EUR"]
  ELSE [table |-> [c \in DOMAIN table |->
                     IF c = currencyCode THEN [table[c] EXCEPT !.IsActive = FALSE]
                     ELSE table[c]],
        err |-> "nil"]

\* DeleteCurrency: EUR and the default currencies are refused; for any other
\* code is_active is set to false where the code matches.
deletedTable(table, currencyCode) ==
  IF currencyCode = "EUR"
  THEN [table |-> table, err |-> "cannot delete base currency EUR"]
  ELSE IF currencyCode \in defaultCurrencies
  THEN [table |-> table, err |-> "cannot delete default currency"]
  ELSE [table |-> [c \in DOMAIN table |->
                     IF c = currencyCode THEN [table[c] EXCEPT !.IsActive = FALSE]
                     ELSE table[c]],
        err |-> "nil"]

\* The table at the start: the base currency and the four default
\* currencies, active, with rates that are not manual.
SeededRates ==
  ("EUR" :> NewExchangeRate(One, FALSE)) @@
  ("USD" :> NewExchangeRate(Frac(11, 10), FALSE)) @@
  ("DKK" :> NewExchangeRate(Frac(15, 2), FALSE)) @@
  ("GBP" :> NewExchangeRate(Frac(17, 20), FALSE)) @@
  ("RUB" :> NewExchangeRate(R(100), FALSE))

\* conversion_rates of two successful responses: one with a currency that
\* can be added (SEK) and one that is never tracked (JPY), one with the
\* base currency and USD only.
ApiResponses ==
  {("EUR" :> One) @@ ("USD" :> Frac(23, 20)) @@ ("GBP" :> Frac(43, 50)) @@
     ("SEK" :> Frac(23, 2)) @@ ("JPY" :> R(160)),
   ("EUR" :> One) @@ ("USD" :> Frac(6, 5))}

\* Outcomes of a call that ends before the table is touched: no API key
\* (nil), a failed request, a response that is not "success".
FetchFailures == {"nil", "failed to fetch exchange rates", "API error"}

\* Arguments of the requests: a default currency, an added one, a code
\* that never has a record.
UpdatedCodes == {"USD", "SEK", "usd"}

RequestedRates == {Frac(9, 10), Frac(21, 2)}

AddedCodes == {"SEK"}

AddedRates == {R(11)}

DeletedCodes == {"EUR", "USD", "DKK", "GBP", "RUB", "SEK", "usd"}

InitRates ==
  /\ exchangeRates = SeededRates
  /\ rateCall = NoRateCall
  /\ op = "new"
  /\ stock = NewStock(Zero, Zero, Zero, Zero, Zero)
  /\ pre = stock
  /\ divisors = {}
  /\ updates = 0
  /\ downsideSupplied = FALSE
  /\ positions = <<>>
  /\ fxRates = <<>>
  /\ metrics = NoMetrics
  /\ zoneQuery = NoQuery
  /\ zoneOutcome = NoOutcome

rateFrame ==
  <<stock, pre, divisors, updates, downsideSupplied, positions, fxRates, metrics,
    zoneQuery, zoneOutcome>>

\* FetchLatestRates that returns before the loop.
FetchLatestRatesSkipped ==
  \E e \in FetchFailures :
    /\ rateCall' = [code |-> "", err |-> e, fetched |-> <<>>]
    /\ op' = "FetchLatestRates"
    /\ UNCHANGED <<exchangeRates, rateFrame>>

\* FetchLatestRates with a successful response.
FetchLatestRates ==
  \E conversionRates \in ApiResponses :
    /\ exchangeRates' = fetchedTable(exchangeRates, conversionRates)
    /\ rateCall' = [code |-> "", err |-> "nil", fetched |-> conversionRates]
    /\ op' = "FetchLatestRates"
    /\ UNCHANGED rateFrame

\* AddCurrency for a code that has no record.
AddCurrency ==
  \E currencyCode \in AddedCodes, rate \in AddedRates, isManual \in BOOLEAN :
    /\ currencyCode \notin DOMAIN exchangeRates
    /\ exchangeRates' = exchangeRates @@ (currencyCode :> NewExchangeRate(rate, isManual))
    /\ rateCall' = [code |-> currencyCode, err |-> "nil", fetched |-> <<>>]
    /\ op' = "AddCurrency"
    /\ UNCHANGED rateFrame

UpdateRate ==
  \E currencyCode \in UpdatedCodes, rate \in RequestedRates, isManual \in BOOLEAN :
    \E r \in {updatedTable(exchangeRates, currencyCode, rate, isManual)} :
      /\ exchangeRates' = r.table
      /\ rateCall' = [code |-> currencyCode, err |-> r.err, fetched |-> <<>>]
      /\ op' = "UpdateRate"
      /\ UNCHANGED rateFrame

DeleteCurrency ==
  \E currencyCode \in DeletedCodes :
    \E r \in {deletedTable(exchangeRates, currencyCode)} :
      /\ exchangeRates' = r.table
      /\ rateCall' = [code |-> currencyCode, err |-> r.err, fetched |-> <<>>]
      /\ op' = "DeleteCurrency"
      /\ UNCHANGED rateFrame

NextRates ==
  \/ FetchLatestRatesSkipped
  \/ FetchLatestRates
  \/ AddCurrency
  \/ UpdateRate
  \/ DeleteCurrency

SpecRates == InitRates /\ [][NextRates]_vars

(***************************************************************************)
(* Properties of CalculateMetrics.  In a state with Called, pre is the     *)
(* record on entry of the last call and stock the record it left.          *)
(***************************************************************************)
Called == op # "new"

Derived(s) ==
  <<s.UpsidePotential, s.BRatio, s.ExpectedValue, s.KellyFraction,
    s.HalfKellySuggested, s.Assessment, s.BuyZoneMin, s.BuyZoneMax,
    s.SellZoneLowerBound, s.SellZoneUpperBound, s.SellZoneStatus>>

\* The position that agrees with s on every input and holds no derived value.
Fresh(s) ==
  [NewStock(s.CurrentPrice, s.FairValue, s.Beta, s.ProbabilityPositive, s.DownsideRisk)
     EXCEPT !.SharesOwned = s.SharesOwned, !.AvgPriceLocal = s.AvgPriceLocal,
            !.Currency = s.Currency, !.Sector = s.Sector, !.Volatility = s.Volatility]

\* C1: two positions that agree on the inputs and differ in the derived
\* values held before the call have equal derived fields after it, also for
\* a zero or negative price or fair value.  Stated for the position on
\* entry and the position with the same inputs and no derived values.
C1_FullyRecomputed ==
  Called => Derived(stock) = Derived(CalculateMetrics(Fresh(pre)))

\* C3: with price > 0 and fair value > 0 on entry, upside, b-ratio and EV
\* are the stated formulas of the inputs, the sanitized probability and the
\* calibrated-or-given downside; beta 1.2, price 100, fair value 120 with
\* probability and downside unset gives -25, 20, 0.8, 4.25, 21.25, 10.625, Hold.
C3_Formulas ==
  (Called /\ RGt(pre.CurrentPrice, Zero) /\ RGt(pre.FairValue, Zero)) =>
    LET U   == RMul(RDiv(RSub(pre.FairValue, pre.CurrentPrice), pre.CurrentPrice), R(100))
        p   == stock.ProbabilityPositive
        D   == stock.DownsideRisk
        mag == IF RLt(RAbs(D), Frac(1, 10)) THEN Frac(1, 10) ELSE RAbs(D)
    IN  /\ stock.UpsidePotential = U
        /\ stock.BRatio = RDiv(U, mag)
        /\ stock.ExpectedValue = RAdd(RMul(p, U), RMul(RSub(One, p), D))
        /\ (/\ pre.Beta = Frac(6, 5) /\ pre.CurrentPrice = R(100)
            /\ pre.FairValue = R(120) /\ pre.ProbabilityPositive = Zero
            /\ pre.DownsideRisk = Zero)
           => /\ stock.DownsideRisk = R(-25)
              /\ stock.UpsidePotential = R(20)
              /\ stock.BRatio = Frac(8, 10)
              /\ stock.ExpectedValue = Frac(425, 100)
              /\ stock.KellyFraction = Frac(2125, 100)
              /\ stock.HalfKellySuggested = Frac(10625, 1000)
              /\ stock.Assessment = "Hold"

C3_Witness ==
  /\ Called
  /\ pre.Beta = Frac(6, 5) /\ pre.CurrentPrice = R(100) /\ pre.FairValue = R(120)
  /\ pre.ProbabilityPositive = Zero /\ pre.DownsideRisk = Zero
  /\ stock.ExpectedValue = Frac(425, 100)

\* The unclamped Kelly value of the stored b-ratio and probability.
RawKelly(s) ==
  RMul(RDiv(RSub(RMul(s.BRatio, s.ProbabilityPositive), RSub(One, s.ProbabilityPositive)),
            s.BRatio), R(100))

\* C4: after any call KellyFraction >= 0 (0 for a negative raw value and for
\* a b-ratio <= 0), HalfKellySuggested <= 15, and HalfKellySuggested is
\* KellyFraction / 2 whenever that is <= 15.
C4_KellyBounds ==
  Called =>
    /\ RGe(stock.KellyFraction, Zero)
    /\ RLe(stock.BRatio, Zero) => stock.KellyFraction = Zero
    /\ (RGt(stock.BRatio, Zero) /\ RLt(RawKelly(stock), Zero)) => stock.KellyFraction = Zero
    /\ RLe(stock.HalfKellySuggested, R(15))
    /\ RLe(RDiv(stock.KellyFraction, R(2)), R(15))
         => stock.HalfKellySuggested = RDiv(stock.KellyFraction, R(2))

C4_Witness ==
  /\ Called
  /\ RGt(stock.BRatio, Zero) /\ RLt(RawKelly(stock), Zero)
  /\ stock.KellyFraction = Zero /\ stock.HalfKellySuggested = Zero

\* C5: the assessment is decided by EV alone: Add iff EV > 7, Hold iff
\* 3 <= EV <= 7, Trim iff 0 <= EV < 3, Sell iff EV < 0.
C5_AssessmentBands ==
  Called =>
    LET ev == stock.ExpectedValue
    IN  /\ stock.Assessment = "Add"  <=> RGt(ev, R(7))
        /\ stock.Assessment = "Hold" <=> (RGe(ev, R(3)) /\ RLe(ev, R(7)))
        /\ stock.Assessment = "Trim" <=> (RGe(ev, Zero) /\ RLt(ev, R(3)))
        /\ stock.Assessment = "Sell" <=> RLt(ev, Zero)

C5_Witness == Called /\ stock.ExpectedValue = R(7) /\ stock.Assessment = "Hold"

\* The breakpoint table of the specification's testable properties.
Breakpoints(beta) ==
  IF RGe(beta, Frac(3, 2)) THEN R(-30)
  ELSE IF RGe(beta, One) THEN R(-25)
  ELSE IF RGe(beta, Frac(1, 2)) THEN R(-20)
  ELSE R(-15)

\* C6 as stated: a downside risk that is zero on entry is set by the
\* breakpoints for every beta, -15 for every beta < 0.5.
C6_Original ==
  (Called /\ pre.DownsideRisk = Zero) => stock.DownsideRisk = Breakpoints(pre.Beta)

\* C6 amended: a downside risk that is zero on entry is set by the
\* breakpoints for every beta > 0: -30 for beta >= 1.5, -25 in [1.0, 1.5),
\* -20 in [0.5, 1.0), -15 for 0 < beta < 0.5.
C6_Calibration ==
  (Called /\ pre.DownsideRisk = Zero /\ RGt(pre.Beta, Zero))
    => stock.DownsideRisk = Breakpoints(pre.Beta)

C6_Witness ==
  /\ Called /\ pre.DownsideRisk = Zero
  /\ pre.Beta = Frac(1, 2) /\ stock.DownsideRisk = R(-20)

\* C7: a downside risk that is zero on entry with a zero or negative beta
\* becomes the fallback -20.
C7_Fallback ==
  (Called /\ pre.DownsideRisk = Zero /\ RLe(pre.Beta, Zero))
    => stock.DownsideRisk = R(-20)

C7_Witness ==
  /\ Called /\ pre.DownsideRisk = Zero
  /\ RLt(pre.Beta, Zero) /\ stock.DownsideRisk = R(-20)

\* C8: a downside risk that is non-zero on entry is left as given, and
\* price, fair value, beta, shares, average entry price, currency, sector
\* and volatility are never modified.
C8_InputsPreserved ==
  Called =>
    /\ pre.DownsideRisk # Zero => stock.DownsideRisk = pre.DownsideRisk
    /\ stock.CurrentPrice = pre.CurrentPrice
    /\ stock.FairValue = pre.FairValue
    /\ stock.Beta = pre.Beta
    /\ stock.SharesOwned = pre.SharesOwned
    /\ stock.AvgPriceLocal = pre.AvgPriceLocal
    /\ stock.Currency = pre.Currency
    /\ stock.Sector = pre.Sector
    /\ stock.Volatility = pre.Volatility

C8_Witness ==
  /\ Called /\ RGt(pre.DownsideRisk, Zero)
  /\ pre.Beta = R(2) /\ stock.DownsideRisk = pre.DownsideRisk

\* C9: the probability is replaced by 0.65 exactly when it is <= 0 or > 1
\* on entry, so after every call it lies in (0, 1].
C9_Probability ==
  Called =>
    /\ (RLe(pre.ProbabilityPositive, Zero) \/ RGt(pre.ProbabilityPositive, One))
         => stock.ProbabilityPositive = Frac(65, 100)
    /\ ~(RLe(pre.ProbabilityPositive, Zero) \/ RGt(pre.ProbabilityPositive, One))
         => stock.ProbabilityPositive = pre.ProbabilityPositive
    /\ RGt(stock.ProbabilityPositive, Zero) /\ RLe(stock.ProbabilityPositive, One)

C9_Witness ==
  /\ Called /\ pre.ProbabilityPositive = Zero
  /\ stock.ProbabilityPositive = Frac(65, 100)

NumericFields(s) ==
  {s.DownsideRisk, s.ProbabilityPositive, s.UpsidePotential, s.BRatio,
   s.ExpectedValue, s.KellyFraction, s.HalfKellySuggested, s.BuyZoneMin,
   s.BuyZoneMax, s.SellZoneLowerBound, s.SellZoneUpperBound}

\* C10: every division of a call has a non-zero divisor, no field is left
\* non-finite, and the call ends with an assessment among Add, Hold, Trim, Sell.
C10_Completes ==
  Called =>
    /\ \A d \in divisors : ~IsNaN(d) /\ d # Zero
    /\ \A x \in NumericFields(stock) : ~IsNaN(x)
    /\ stock.Assessment \in {"Add", "Hold", "Trim", "Sell"}

C10_Witness ==
  /\ Called
  /\ pre.CurrentPrice = Zero /\ pre.FairValue = Zero
  /\ pre.ProbabilityPositive = Zero /\ pre.Beta = Zero
  /\ stock.Assessment \in {"Add", "Hold", "Trim", "Sell"}

\* The closed form of the threshold price for an EV target:
\* 100*p*FV / (target + 100*p + (1 - p)*|D|).
ThresholdDenominator(s, target) ==
  RAdd(RAdd(target, RMul(R(100), s.ProbabilityPositive)),
       RMul(RSub(One, s.ProbabilityPositive), RAbs(s.DownsideRisk)))

ThresholdPrice(s, target) ==
  RDiv(RMul(RMul(R(100), s.ProbabilityPositive), s.FairValue),
       ThresholdDenominator(s, target))

\* The solve is feasible: positive denominator, positive finite price.
Feasible(s, target) ==
  RGt(ThresholdDenominator(s, target), Zero) /\ RGt(ThresholdPrice(s, target), Zero)

\* The buy zone is the EV = 7 threshold price with its 10% band, or the
\* 85% / 95% bands around the current price when that solve is infeasible.
BuyZoneIsThreshold ==
  IF Feasible(stock, R(7))
  THEN /\ stock.BuyZoneMax = ThresholdPrice(stock, R(7))
       /\ stock.BuyZoneMin = RMul(stock.BuyZoneMax, <<9, 10>>)
  ELSE /\ stock.BuyZoneMin = RMul(stock.CurrentPrice, <<17, 20>>)
       /\ stock.BuyZoneMax = RMul(stock.CurrentPrice, <<19, 20>>)

\* C11 as stated: for every position with fair value > 0 the buy zone is
\* the solver's EV = 7 price and 90% of it, the fallback bands only for an
\* infeasible solve.
C11_Original ==
  (Called /\ RGt(pre.FairValue, Zero)) => BuyZoneIsThreshold

\* C11 amended: for every position with fair value > 0 and a negative
\* downside risk, BuyZoneMax is the solver's EV = 7 price
\* 100*p*FV / (7 + 100*p + (1 - p)*|D|) and BuyZoneMin is 90% of it; the
\* solve is feasible there and the fallback bands are not used.
C11_BuyZoneThreshold ==
  (Called /\ RGt(pre.FairValue, Zero) /\ RLt(stock.DownsideRisk, Zero))
    => Feasible(stock, R(7)) /\ BuyZoneIsThreshold

C11_Witness ==
  /\ Called
  /\ pre.FairValue = R(120) /\ pre.ProbabilityPositive = <<1, 2>>
  /\ pre.DownsideRisk = R(-20)
  /\ stock.BuyZoneMax = <<6000, 67>> /\ stock.BuyZoneMin = <<5400, 67>>

\* The buy zone was solved, not taken from the bands around the price.
BuyZoneSolved(s) ==
  RGt(requiredUpsideOf(s.ProbabilityPositive, s.DownsideRisk), R(-100))

\* The forward formula at the stored upper bound of the buy zone.
EVAtBuyZoneMax ==
  expectedValueAtPrice(stock.FairValue, stock.ProbabilityPositive,
                       stock.DownsideRisk, stock.BuyZoneMax)

\* C12 as stated: for every position with fair value > 0 the forward
\* formula at BuyZoneMax gives the target 7.
C12_Original ==
  (Called /\ RGt(pre.FairValue, Zero)) => EVAtBuyZoneMax = R(7)

\* C12 amended: for every position with fair value > 0 whose buy zone was
\* solved (required upside > -100, as it is for every negative downside
\* risk) the forward formula at BuyZoneMax gives the target 7.
C12_RoundTrip ==
  (Called /\ RGt(pre.FairValue, Zero) /\ BuyZoneSolved(stock))
    => EVAtBuyZoneMax = R(7)

C12_Witness ==
  /\ Called
  /\ pre.FairValue = R(120) /\ pre.CurrentPrice = R(100)
  /\ pre.DownsideRisk = R(-14) /\ pre.ProbabilityPositive = <<1, 10>>
  /\ stock.BuyZoneMax = <<1500, 37>>
  /\ EVAtBuyZoneMax = R(7)

\* C13: the sell zone is the pair of threshold prices for EV = 3 and
\* EV = 0 when both solves are feasible and lower < upper, with the status
\* "Below sell zone" for EV > 3, "In trim zone" for 0 < EV <= 3 and
\* "In sell zone" otherwise; in every other case both bounds are 0 and the
\* status is "no sell zone".
C13_SellZone ==
  Called =>
    IF /\ Feasible(stock, R(3)) /\ Feasible(stock, Zero)
       /\ RLt(ThresholdPrice(stock, R(3)), ThresholdPrice(stock, Zero))
    THEN /\ stock.SellZoneLowerBound = ThresholdPrice(stock, R(3))
         /\ stock.SellZoneUpperBound = ThresholdPrice(stock, Zero)
         /\ stock.SellZoneStatus = "Below sell zone" <=> RGt(stock.ExpectedValue, R(3))
         /\ stock.SellZoneStatus = "In trim zone" <=>
              (RGt(stock.ExpectedValue, Zero) /\ RLe(stock.ExpectedValue, R(3)))
         /\ stock.SellZoneStatus = "In sell zone" <=> RLe(stock.ExpectedValue, Zero)
    ELSE /\ stock.SellZoneLowerBound = Zero
         /\ stock.SellZoneUpperBound = Zero
         /\ stock.SellZoneStatus = "no sell zone"

C13_Witness ==
  /\ Called
  /\ stock.ExpectedValue = R(3)
  /\ stock.SellZoneLowerBound = R(100)
  /\ stock.SellZoneUpperBound = <<2000, 19>>
  /\ stock.SellZoneStatus = "In trim zone"

(***************************************************************************)
(* Properties of CalculatePortfolioMetrics.  In a state with Aggregated,   *)
(* metrics is the summary of positions under fxRates.                      *)
(***************************************************************************)
Aggregated == op = "CalculatePortfolioMetrics"

RECURSIVE RSum(_, _)
RSum(f, S) ==
  IF S = {} THEN Zero
  ELSE LET i == CHOOSE x \in S : TRUE
       IN  RAdd(f[i], RSum(f, S \ {i}))

\* Owned positions whose currency has a positive rate.
IncludedPositions ==
  {i \in 1..Len(positions) :
     positions[i].SharesOwned > 0 /\ RGt(RateOf(fxRates, positions[i].Currency), Zero)}

BaseValue(i) ==
  RDiv(RMul(R(positions[i].SharesOwned), positions[i].CurrentPrice),
       RateOf(fxRates, positions[i].Currency))

BucketOf(m, sector) == IF sector \in DOMAIN m THEN m[sector] ELSE Zero

IsOwned(s) == s.SharesOwned > 0

ValidRate(s) == s.Currency \in DOMAIN fxRates /\ RGt(fxRates[s.Currency], Zero)

\* C14: a position with shares owned <= 0 contributes to nothing: the
\* summary is the summary of the owned positions alone, every sector bucket
\* belongs to an included position, and when the list is empty or every
\* position is excluded the summary is all zero with an empty sector map.
C14_UnownedExcluded ==
  Aggregated =>
    /\ metrics = CalculatePortfolioMetrics(SelectSeq(positions, IsOwned), fxRates)
    /\ \A sec \in DOMAIN metrics.SectorWeights :
         \E i \in 1..Len(positions) :
           IsOwned(positions[i]) /\ ValidRate(positions[i]) /\ positions[i].Sector = sec
    /\ (\A i \in 1..Len(positions) : ~IsOwned(positions[i]) \/ ~ValidRate(positions[i]))
         => metrics = NoMetrics

\* 10 shares at 100 USD next to a position of -3 shares in another sector.
C14_Witness ==
  /\ Aggregated
  /\ Len(positions) = 2
  /\ positions[1].SharesOwned = -3 /\ positions[1].Sector = "Energy"
  /\ positions[2].SharesOwned = 10 /\ positions[2].Sector = "Tech"
  /\ metrics.TotalValue = R(1000)
  /\ DOMAIN metrics.SectorWeights = {"Tech"}

\* C15: an owned position whose currency has no rate, or a rate <= 0, is
\* skipped: the summary is no error value and equals the summary of the
\* list without the positions that have no valid rate.
C15_RatelessSkipped ==
  Aggregated =>
    /\ metrics = CalculatePortfolioMetrics(SelectSeq(positions, ValidRate), fxRates)
    /\ ~IsNaN(metrics.TotalValue) /\ ~IsNaN(metrics.OverallEV)
    /\ ~IsNaN(metrics.WeightedVolatility) /\ ~IsNaN(metrics.SharpeRatio)
    /\ ~IsNaN(metrics.KellyUtilization)

\* 10 shares at 100 USD and 4 shares at 50 GBP with no usable GBP rate.
C15_Witness ==
  /\ Aggregated
  /\ Len(positions) = 2
  /\ positions[1].Currency = "USD" /\ positions[1].SharesOwned = 10
  /\ positions[1].CurrentPrice = R(100)
  /\ positions[2].Currency = "GBP" /\ IsOwned(positions[2]) /\ ~ValidRate(positions[2])
  /\ metrics.TotalValue = R(1000)
  /\ metrics.OverallEV = R(5)

SomeOwnedSkipped ==
  \E i \in 1..Len(positions) : IsOwned(positions[i]) /\ ~ValidRate(positions[i])

\* Every owned position has a valid rate and a positive value.
AllOwnedValued ==
  \A i \in 1..Len(positions) :
    IsOwned(positions[i]) => (ValidRate(positions[i]) /\ RGt(BaseValue(i), Zero))

Reordered(stocks, q) == [i \in 1..Len(stocks) |-> stocks[q[i]]]

\* C18: for the same rate table every permutation of the positions yields
\* the same summary.
C18_OrderIndependent ==
  Aggregated =>
    \A q \in Permutations(1..Len(positions)) :
      CalculatePortfolioMetrics(Reordered(positions, q), fxRates) = metrics

\* Three different valued positions, two of them in one sector.
C18_Witness ==
  /\ Aggregated
  /\ Len(positions) = 3
  /\ positions[1].Currency = "USD" /\ positions[1].Sector = "Tech"
  /\ positions[2].Currency = "EUR" /\ positions[2].Sector = "Health"
  /\ positions[3].Currency = "GBP" /\ positions[3].Sector = "Tech"
  /\ ValidRate(positions[3])
  /\ metrics.TotalValue = R(1750)

(***************************************************************************)
(* Properties of the zone queries.  In a state with ZoneCalled,            *)
(* zoneOutcome is what the entry point named by op returned for zoneQuery. *)
(***************************************************************************)
BuyCalled == op = "CalculateBuyZoneResult"

ZoneCalled == op \in {"CalculateBuyZoneResult", "CalculateSellZoneResult"}

\* The probability is outside [0, 1], or the downside risk is not strictly
\* negative, or the fair value is not strictly positive.
InvalidQuery ==
  \/ RLt(zoneQuery.probabilityPositive, Zero)
  \/ RGt(zoneQuery.probabilityPositive, One)
  \/ ~RLt(zoneQuery.downsideRisk, Zero)
  \/ ~RGt(zoneQuery.fairValue, Zero)

ReturnedZone ==
  IF BuyCalled THEN zoneOutcome.result.BuyZone ELSE zoneOutcome.result.SellZone

ReturnedStatus ==
  IF BuyCalled THEN zoneOutcome.result.ZoneStatus ELSE zoneOutcome.result.SellZoneStatus

\* C19: both entry points return an error exactly for an invalid query, and
\* a result returned with an error has zero bounds, zero current EV and an
\* empty status.
C19_ValidationErrors ==
  ZoneCalled =>
    /\ zoneOutcome.err # "nil" <=> InvalidQuery
    /\ zoneOutcome.err # "nil" =>
         /\ ReturnedZone = [LowerBound |-> Zero, UpperBound |-> Zero]
         /\ zoneOutcome.result.CurrentExpectedValue = Zero
         /\ ReturnedStatus = ""

\* A zero downside risk with a valid probability and fair value is rejected.
C19_Witness ==
  /\ ZoneCalled
  /\ zoneQuery.downsideRisk = Zero
  /\ zoneQuery.probabilityPositive = One
  /\ zoneQuery.fairValue = R(120)
  /\ zoneOutcome.err = "downside_risk must be negative"

\* C20: for a valid query with a price > 0 the buy zone is the pair of
\* threshold prices for EV = 15 and EV = 7 and the price is classified as
\* "EV >> 15%" below the lower bound, "within buy zone" from the lower to
\* the upper bound inclusive, "outside buy zone" above the upper bound;
\* "no buy zone available" is returned only for an infeasible solve or
\* inverted bounds.
C20_BuyZoneClassification ==
  (BuyCalled /\ ~InvalidQuery /\ RGt(zoneQuery.currentPrice, Zero)) =>
    IF /\ Feasible(zoneOutcome.result, R(15)) /\ Feasible(zoneOutcome.result, R(7))
       /\ RLe(ThresholdPrice(zoneOutcome.result, R(15)),
              ThresholdPrice(zoneOutcome.result, R(7)))
    THEN /\ ReturnedZone.LowerBound = ThresholdPrice(zoneOutcome.result, R(15))
         /\ ReturnedZone.UpperBound = ThresholdPrice(zoneOutcome.result, R(7))
         /\ ReturnedStatus = "EV >> 15%" <=>
              RLt(zoneQuery.currentPrice, ReturnedZone.LowerBound)
         /\ ReturnedStatus = "within buy zone" <=>
              /\ RLe(ReturnedZone.LowerBound, zoneQuery.currentPrice)
              /\ RLe(zoneQuery.currentPrice, ReturnedZone.UpperBound)
         /\ ReturnedStatus = "outside buy zone" <=>
              RGt(zoneQuery.currentPrice, ReturnedZone.UpperBound)
    ELSE ReturnedStatus = "no buy zone available"

\* Fair value 107 with probability 1 puts the upper bound at the price 100.
C20_Witness ==
  /\ BuyCalled
  /\ zoneQuery.fairValue = R(107) /\ zoneQuery.probabilityPositive = One
  /\ zoneQuery.downsideRisk = R(-25) /\ zoneQuery.currentPrice = R(100)
  /\ ReturnedZone.UpperBound = R(100)
  /\ ReturnedStatus = "within buy zone"


(***************************************************************************)
(* Recalculation of a stored position                                      *)
(***************************************************************************)
\* The downside risk step 1 gives a position with this beta and no
\* downside risk of its own.
CalibrationOf(beta) ==
  IF RGt(beta, Zero) THEN calibrateDownsideRisk(beta) ELSE R(-20)

\* C23: for a position whose downside risk was never supplied (zero before
\* the first calculation), after any sequence of beta changes each followed
\* by CalculateMetrics the stored downside risk is the calibration of the
\* current beta.
C23_CalibrationTracksBeta ==
  (Called /\ ~downsideSupplied) => stock.DownsideRisk = CalibrationOf(stock.Beta)


\* C24: CalculateMetrics is idempotent: a call on the position a call just
\* produced, with no input changed in between, leaves every field
\* unchanged.
C24_Idempotent ==
  [][(Called /\ op' = "CalculateMetrics") => stock' = stock]_vars

\* A second call on a position with a positive expected value and a
\* position-size suggestion.
C24_Witness ==
  /\ op = "CalculateMetrics" /\ pre = stock
  /\ stock.CurrentPrice = R(100) /\ stock.FairValue = R(120)
  /\ RGt(stock.ExpectedValue, Zero) /\ RGt(stock.HalfKellySuggested, Zero)
  /\ stock.Assessment # "" /\ stock.SellZoneStatus # ""


\* C25: after CalculateMetrics on a position with fair value > 0 and a
\* negative downside risk (calibrated or given) the zone bounds are strictly
\* ordered and lie below fair value:
\*   0 < BuyZoneMin < BuyZoneMax < SellZoneLowerBound < SellZoneUpperBound <= FairValue,
\* and SellZoneUpperBound = FairValue only when the probability is 1.
C25_ZoneOrdering ==
  (Called /\ RGt(stock.FairValue, Zero) /\ RLt(stock.DownsideRisk, Zero)) =>
    /\ RLt(Zero, stock.BuyZoneMin)
    /\ RLt(stock.BuyZoneMin, stock.BuyZoneMax)
    /\ RLt(stock.BuyZoneMax, stock.SellZoneLowerBound)
    /\ RLt(stock.SellZoneLowerBound, stock.SellZoneUpperBound)
    /\ RLe(stock.SellZoneUpperBound, stock.FairValue)
    /\ (stock.SellZoneUpperBound = stock.FairValue => stock.ProbabilityPositive = One)

\* Probability 1: the upper sell bound is the fair value itself.
C25_Witness ==
  /\ Called
  /\ stock.FairValue = R(120) /\ stock.ProbabilityPositive = One
  /\ RLt(stock.DownsideRisk, Zero)
  /\ stock.SellZoneUpperBound = R(120)
  /\ RLt(stock.BuyZoneMax, stock.SellZoneLowerBound)


\* C26: after CalculateMetrics on any input a non-positive expected value
\* never comes with a position-size suggestion: ExpectedValue <= 0 implies
\* KellyFraction = 0 and HalfKellySuggested = 0, and an assessment of Sell
\* has half-Kelly 0.
C26_NoSizeWithoutEdge ==
  Called =>
    /\ RLe(stock.ExpectedValue, Zero) =>
         (stock.KellyFraction = Zero /\ stock.HalfKellySuggested = Zero)
    /\ RGt(stock.KellyFraction, Zero) => RGt(stock.ExpectedValue, Zero)
    /\ stock.Assessment = "Sell" => stock.HalfKellySuggested = Zero

\* A positive b ratio whose raw Kelly value is negative: the clamp acts.
C26_Witness ==
  /\ Called
  /\ RGt(stock.BRatio, Zero)
  /\ RLt(kellyOf(stock.BRatio, stock.ProbabilityPositive), Zero)
  /\ RLt(stock.ExpectedValue, Zero)
  /\ stock.KellyFraction = Zero /\ stock.HalfKellySuggested = Zero
  /\ stock.Assessment = "Sell"


\* The standalone sell-zone query for the inputs of the stored position.
StandaloneSellZone ==
  CalculateSellZoneResult("", stock.FairValue, stock.ProbabilityPositive,
                          stock.DownsideRisk, stock.CurrentPrice)

\* C28: for every position with current price > 0, fair value > 0,
\* probability in (0, 1] and negative downside risk, SellZoneLowerBound,
\* SellZoneUpperBound and SellZoneStatus after CalculateMetrics equal the
\* bounds and the status CalculateSellZoneResult returns for the same fair
\* value, probability, downside risk and current price.
C28_EmbeddedMatchesStandalone ==
  (/\ Called
   /\ RGt(stock.CurrentPrice, Zero) /\ RGt(stock.FairValue, Zero)
   /\ RGt(stock.ProbabilityPositive, Zero) /\ RLe(stock.ProbabilityPositive, One)
   /\ RLt(stock.DownsideRisk, Zero)) =>
    /\ StandaloneSellZone.err = "nil"
    /\ StandaloneSellZone.result.SellZone.LowerBound = stock.SellZoneLowerBound
    /\ StandaloneSellZone.result.SellZone.UpperBound = stock.SellZoneUpperBound
    /\ StandaloneSellZone.result.SellZoneStatus = stock.SellZoneStatus

\* A price below the trim threshold: both report "Below sell zone".
C28_Witness ==
  /\ Called
  /\ stock.CurrentPrice = R(100) /\ stock.FairValue = R(120)
  /\ RLt(stock.DownsideRisk, Zero)
  /\ RLt(stock.CurrentPrice, stock.SellZoneLowerBound)
  /\ stock.SellZoneStatus = "Below sell zone"
  /\ StandaloneSellZone.result.SellZoneStatus = "Below sell zone"


SellCalled == op = "CalculateSellZoneResult"

\* C27: for valid inputs with probability in (0, 1] and current price > 0
\* the status CalculateSellZoneResult derives from the current EV agrees
\* with the position of the price relative to the returned bounds: "Below
\* sell zone" iff price < LowerBound, "In trim zone" iff LowerBound <= price
\* < UpperBound, "In sell zone" iff price >= UpperBound.
C27_SellStatusMatchesBounds ==
  (/\ SellCalled /\ ~InvalidQuery
   /\ RGt(zoneQuery.probabilityPositive, Zero)
   /\ RGt(zoneQuery.currentPrice, Zero)) =>
    /\ ReturnedStatus = "Below sell zone" <=>
         RLt(zoneQuery.currentPrice, ReturnedZone.LowerBound)
    /\ ReturnedStatus = "In trim zone" <=>
         /\ RLe(ReturnedZone.LowerBound, zoneQuery.currentPrice)
         /\ RLt(zoneQuery.currentPrice, ReturnedZone.UpperBound)
    /\ ReturnedStatus = "In sell zone" <=>
         RGe(zoneQuery.currentPrice, ReturnedZone.UpperBound)

\* Fair value 103 with probability 1 puts the lower bound at the price 100.
C27_Witness ==
  /\ SellCalled
  /\ zoneQuery.fairValue = R(103) /\ zoneQuery.probabilityPositive = One
  /\ zoneQuery.downsideRisk = R(-25) /\ zoneQuery.currentPrice = R(100)
  /\ ReturnedZone.LowerBound = R(100) /\ ReturnedZone.UpperBound = R(103)
  /\ zoneOutcome.result.CurrentExpectedValue = R(3)
  /\ ReturnedStatus = "In trim zone"


\* C29: for every input that passes validation with probability in (0, 1]
\* both solves of CalculateBuyZoneResult succeed and
\* 0 < LowerBound < UpperBound < FairValue, so the inverted-bounds branch is
\* never taken; "no buy zone available" is returned only for probability
\* exactly 0, where both bounds stay 0.
C29_BuyZoneWellFormed ==
  (BuyCalled /\ ~InvalidQuery) =>
    /\ RGt(zoneQuery.probabilityPositive, Zero) =>
         /\ solvePriceForEVThreshold(zoneQuery.fairValue, zoneQuery.probabilityPositive,
                                     zoneQuery.downsideRisk, R(15)).ok
         /\ solvePriceForEVThreshold(zoneQuery.fairValue, zoneQuery.probabilityPositive,
                                     zoneQuery.downsideRisk, R(7)).ok
         /\ RLt(Zero, ReturnedZone.LowerBound)
         /\ RLt(ReturnedZone.LowerBound, ReturnedZone.UpperBound)
         /\ RLt(ReturnedZone.UpperBound, zoneQuery.fairValue)
    /\ ReturnedStatus = "no buy zone available" =>
         /\ zoneQuery.probabilityPositive = Zero
         /\ ReturnedZone = [LowerBound |-> Zero, UpperBound |-> Zero]

\* A valid query with probability 1 and a price between the two bounds.
C29_Witness ==
  /\ BuyCalled
  /\ zoneQuery.fairValue = R(120) /\ zoneQuery.probabilityPositive = One
  /\ zoneQuery.downsideRisk = R(-15) /\ zoneQuery.currentPrice = R(90)
  /\ ReturnedZone = [LowerBound |-> Frac(2400, 23), UpperBound |-> Frac(12000, 107)]
  /\ ReturnedStatus = "EV >> 15%"

\* The one valid query without a buy zone: probability exactly 0.
C29_ZeroProbability ==
  /\ BuyCalled /\ ~InvalidQuery
  /\ zoneQuery.probabilityPositive = Zero
  /\ ReturnedStatus = "no buy zone available"


(***************************************************************************)
(* Properties of GetPortfolioSummary.                                      *)
(***************************************************************************)
Summarised == op = "GetPortfolioSummary"

OwnedPositions == {i \in 1..Len(positions) : positions[i].SharesOwned > 0}

\* The value CalculatePortfolioMetrics used for position i.
AggregatedValue(i) == IF i \in IncludedPositions THEN BaseValue(i) ELSE Zero

\* C30: in GetPortfolioSummary the weight stored for each owned stock is
\* the value the aggregator used for it over the total value the aggregator
\* returned, so whenever the total value is positive the stored weights of
\* the owned stocks sum to 100, the summary's Kelly utilization, for every
\* rate table including one that lacks a stock's currency.
C30_StoredWeightsSum ==
  (Summarised /\ RGt(metrics.TotalValue, Zero)) =>
    /\ \A i \in OwnedPositions :
         positions[i].Weight =
           RMul(RDiv(AggregatedValue(i), metrics.TotalValue), R(100))
    /\ RSum([i \in OwnedPositions |-> positions[i].Weight], OwnedPositions) = R(100)
    /\ metrics.KellyUtilization = R(100)


(***************************************************************************)
(* Properties of the exchange-rate service.                                *)
(***************************************************************************)
\* C21: manual exchange rates are preserved during API updates: while the
\* record of a currency is manual, no step other than an UpdateRate of that
\* currency changes its stored rate or its manual flag; in particular no
\* FetchLatestRates does.
C21_ManualRatesPreserved ==
  [][\A c \in DOMAIN exchangeRates :
       exchangeRates[c].IsManual =>
         /\ c \in DOMAIN exchangeRates'
         /\ (\/ exchangeRates'[c].Rate # exchangeRates[c].Rate
             \/ exchangeRates'[c].IsManual # exchangeRates[c].IsManual)
              => (op' = "UpdateRate" /\ rateCall'.code = c)]_vars

\* A successful fetch that carries a USD rate of 1.15 and has stored the
\* GBP rate, while the manual USD rate 0.9 is still in the table.
C21_Witness ==
  /\ op = "FetchLatestRates" /\ rateCall.err = "nil"
  /\ "USD" \in DOMAIN rateCall.fetched /\ rateCall.fetched["USD"] = Frac(23, 20)
  /\ exchangeRates["USD"] = [Rate |-> Frac(9, 10), IsManual |-> TRUE, IsActive |-> TRUE]
  /\ exchangeRates["GBP"].Rate = Frac(43, 50)

ProtectedCurrencies == {"EUR", "USD", "DKK", "GBP", "RUB"}

\* C22: DeleteCurrency refuses EUR, USD, DKK, GBP and RUB with an error and
\* leaves every record unchanged; for any other code it only marks the
\* record inactive (the record and its rate are kept), after which the
\* currency is in neither GetAllRates nor GetRatesMap; the five protected
\* currencies stay active.
C22_DeleteCurrency ==
  /\ [](\A c \in ProtectedCurrencies :
          c \in DOMAIN exchangeRates /\ exchangeRates[c].IsActive)
  /\ [][op' = "DeleteCurrency" =>
          IF rateCall'.code \in ProtectedCurrencies
          THEN rateCall'.err # "nil" /\ exchangeRates' = exchangeRates
          ELSE /\ rateCall'.err = "nil"
               /\ DOMAIN exchangeRates' = DOMAIN exchangeRates
               /\ \A c \in DOMAIN exchangeRates :
                    IF c = rateCall'.code
                    THEN exchangeRates'[c] = [exchangeRates[c] EXCEPT !.IsActive = FALSE]
                    ELSE exchangeRates'[c] = exchangeRates[c]
               /\ rateCall'.code \notin GetAllRates(exchangeRates')
               /\ rateCall'.code \notin DOMAIN GetRatesMap(exchangeRates')]_vars

\* SEK was added with rate 11 and deleted: the record is kept, inactive,
\* and is not in the rates map, which still holds the five protected codes.
C22_Witness ==
  /\ op = "DeleteCurrency" /\ rateCall.code = "SEK" /\ rateCall.err = "nil"
  /\ "SEK" \in DOMAIN exchangeRates
  /\ exchangeRates["SEK"].Rate = R(11) /\ ~exchangeRates["SEK"].IsActive
  /\ DOMAIN GetRatesMap(exchangeRates) = ProtectedCurrencies

====
